---- MODULE Spec2Model ----
(***************************************************************************)
(* Model of repeatmasking_utils.py: the three orchestrators                *)
(* (run_repeatmasker_regions, run_dust_regions, run_trf_repeats), their    *)
(* per-slice workers running in a multiprocessing.Pool, and the three      *)
(* raw-output parsers (create_repeatmasker_gtf, create_dust_gtf,           *)
(* create_trf_gtf).                                                        *)
(***************************************************************************)
EXTENDS Integers, Sequences, FiniteSets, TLC

VARIABLES
    family,         \* tool family of the orchestrator being called
    pc,             \* position of the orchestrating process
    run,            \* number of the current orchestrator call
    num_threads,    \* operator-supplied worker count
    inventory,      \* the genome: sequence of [name, length]
    slice_ids,      \* slice list of the current call
    next_i,         \* index of the next slice the dispatch loop submits
    queue,          \* the pool's task queue (indices into slice_ids)
    workers,        \* per pool worker: [wpc, task]
    fs,             \* per-slice files of the output directory: path -> lines
    final,          \* annotation.gtf of the output directory: [exists, data]
    cwd,            \* working directory of the orchestrating process
    hist,           \* bookkeeping of the current call (never read by the code)
    parser,         \* a stand-alone parse pass (ParseSpec)
    slicer,         \* a stand-alone slicing pass (SliceSpec)
    namer,          \* the file names of two slices (SpecNames)
    builder         \* a stand-alone build of the command line (SpecCmd)

vars == <<family, pc, run, num_threads, inventory, slice_ids, next_i, queue,
          workers, fs, final, cwd, hist, parser, slicer, namer, builder>>

mainvars == <<family, pc, run, num_threads, inventory, slice_ids, next_i,
              queue, workers, fs, final, cwd, hist>>

Families == {"masker", "dust", "trf"}

(***************************************************************************)
(* Bounds                                                                  *)
(***************************************************************************)
MaxLines == 2        \* lines of one raw tool output in ParseSpec
MaxWorkers == 2      \* largest worker count tried
MaxRuns == 2         \* consecutive orchestrator calls on one output directory
MaxRegions == 2      \* regions of an inventory in SliceSpec

(***************************************************************************)
(* Raw output lines.  A line is [lead, toks]: whether it starts with       *)
(* white space, and its white-space separated tokens (str.split()).        *)
(***************************************************************************)
Line(lead, toks) == [lead |-> lead, toks |-> toks]

DigitToks == {"0", "1", "2", "3", "8", "10", "11", "12", "45", "50", "60",
              "65", "75", "85", "88", "90", "100", "130", "200", "239", "25",
              "70", "80"}

\* tokens float() accepts, with their value in tenths
FloatTenths ==
    [t \in DigitToks \cup {"1.9", "2.0", "2.5", "3.0", "0.0", "23.6"} |->
        CASE t = "0" -> 0 [] t = "1" -> 10 [] t = "2" -> 20 [] t = "3" -> 30
          [] t = "8" -> 80 [] t = "10" -> 100 [] t = "11" -> 110
          [] t = "12" -> 120 [] t = "25" -> 250 [] t = "45" -> 450
          [] t = "50" -> 500 [] t = "60" -> 600 [] t = "65" -> 650
          [] t = "75" -> 750 [] t = "85" -> 850 [] t = "88" -> 880
          [] t = "90" -> 900 [] t = "100" -> 1000 [] t = "130" -> 1300
          [] t = "200" -> 2000 [] t = "239" -> 2390
          [] t = "70" -> 700 [] t = "80" -> 800
          [] t = "1.9" -> 19 [] t = "2.0" -> 20 [] t = "2.5" -> 25
          [] t = "3.0" -> 30 [] t = "0.0" -> 0 [] t = "23.6" -> 236]

\* tokens int() accepts, with their value
IntOf ==
    [t \in DigitToks |-> FloatTenths[t] \div 10]

\* python: results[i], 0-indexed
Field(results, i) == results[i + 1]

\* python: results[-1]
LastTok(results) == results[Len(results)]

\* python: results.pop()
Pop(results) == SubSeq(results, 1, Len(results) - 1)

(***************************************************************************)
(* RepeatMasker .out lines                                                 *)
(***************************************************************************)
RmToks(score, strand) ==
    <<score, "23.6", "0.0", "0.0", "chr1", "100", "200", "(500)", strand,
      "L1", "LINE", "11", "88", "(7)", "1">>

RmLines ==
    { Line(TRUE, RmToks("239", "+")),
      Line(FALSE, RmToks("239", "C")),
      Line(TRUE, RmToks("239", "+") \o <<"*">>),
      Line(TRUE, RmToks("45", "C") \o <<"*">>),
      Line(TRUE, Pop(RmToks("239", "+"))),                \* 14 fields
      Line(TRUE, RmToks("239", "C") \o <<"2">>),          \* 16 fields
      Line(TRUE, RmToks("score", "+")),                   \* header-like
      Line(FALSE, <<"SW", "perc", "perc">>),               \* header
      Line(FALSE, <<>>) }                                  \* blank line

\* re.search(r"^\s*\d+\s+", line); every line ends with a newline
RmMatch(line) ==
    /\ Len(line.toks) > 0
    /\ line.toks[1] \in DigitToks

(***************************************************************************)
(* A parse pass in progress is [lines, pos, repeat_count, out, raised]:    *)
(* the raw lines, the index of the line the loop variable holds (Len+1 at  *)
(* end of file), the counter, the records written so far, and whether an   *)
(* exception left the loop.                                                *)
(***************************************************************************)
StartPass(lines) ==
    [lines |-> lines, pos |-> 1, repeat_count |-> 1, out |-> <<>>,
     raised |-> FALSE]

AtEof(p) == p.pos > Len(p.lines)

\* a loop that counts every line it has read
ReadNextCounting(p) ==
    [p EXCEPT !.pos = p.pos + 1, !.repeat_count = p.repeat_count + 1]

\* line = f.readline() at the bottom of the loop
ReadNext(p) == [p EXCEPT !.pos = p.pos + 1]

\* out.write(gtf_line); repeat_count += 1; line = f.readline()
Emit(p, gtf_line) ==
    [p EXCEPT !.out = Append(p.out, gtf_line),
              !.repeat_count = p.repeat_count + 1,
              !.pos = p.pos + 1]

\* a record whose consensus start always comes from field 11
RmGtfLineForwardOnly(region_name, results, repeat_count) ==
    [region |-> region_name,
     source |-> "RepeatMasker",
     feature |-> "repeat",
     start |-> Field(results, 5),
     end |-> Field(results, 6),
     strand |-> IF Field(results, 8) = "+" THEN "+" ELSE "-",
     repeat_id |-> repeat_count,
     repeat_name |-> Field(results, 9),
     repeat_class |-> Field(results, 10),
     repeat_start |-> Field(results, 11),
     repeat_end |-> Field(results, 12),
     score |-> Field(results, 0)]

RmGtfLine(region_name, results, repeat_count) ==
    LET strand == Field(results, 8)
        plus == strand = "+"
    IN [region |-> region_name,
        source |-> "RepeatMasker",
        feature |-> "repeat",
        start |-> Field(results, 5),
        end |-> Field(results, 6),
        strand |-> IF plus THEN strand ELSE "-",
        repeat_id |-> repeat_count,
        repeat_name |-> Field(results, 9),
        repeat_class |-> Field(results, 10),
        repeat_start |-> IF plus THEN Field(results, 11) ELSE Field(results, 13),
        repeat_end |-> Field(results, 12),
        score |-> Field(results, 0)]

\* one iteration of the while loop of create_repeatmasker_gtf
RmIter(p, region_name) ==
    LET line == p.lines[p.pos]
        split == line.toks
        results == IF Len(split) > 0 /\ LastTok(split) = "*"
                   THEN Pop(split) ELSE split
    IN IF RmMatch(line)
       THEN IF Len(results) # 15
            THEN p              \* continue: the next line is never read
            ELSE Emit(p, RmGtfLine(region_name, results, p.repeat_count))
       ELSE ReadNext(p)

(***************************************************************************)
(* dustmasker interval lines.  The line is never split: its toks are its   *)
(* maximal runs of digits and of other characters, in order.               *)
(***************************************************************************)
DustLines ==
    { Line(FALSE, <<"12", " - ", "45">>),
      Line(FALSE, <<"0", " - ", "8">>),
      Line(FALSE, <<">chr", "1">>),
      Line(FALSE, <<"12", " ", "45">>),
      Line(FALSE, <<"12", "-", "45">>),
      Line(FALSE, <<">chr", "1", " ", "100", " - ", "130", " bp">>),
      Line(FALSE, <<"x", "12", " - ", "45", "y">>),
      Line(FALSE, <<>>) }

\* re.search(r"(\d+)\ - (\d+)", line): index of the leftmost run of digits
\* that is followed by " - " and a run of digits, 0 if there is none
DustMatch(line) ==
    LET hits == { i \in 1..(Len(line.toks) - 2) :
                    /\ line.toks[i] \in DigitToks
                    /\ line.toks[i + 1] = " - "
                    /\ line.toks[i + 2] \in DigitToks }
    IN IF hits = {} THEN 0
       ELSE CHOOSE i \in hits : \A j \in hits : i <= j

DustGtfLine(region_name, start, end, repeat_count) ==
    [region |-> region_name,
     source |-> "Dust",
     feature |-> "repeat",
     start |-> start,
     end |-> end,
     strand |-> "+",
     repeat_id |-> repeat_count]

\* one iteration of the while loop of create_dust_gtf
DustIter(p, region_name) ==
    LET line == p.lines[p.pos]
        m == DustMatch(line)
    IN IF m # 0
       THEN Emit(p, DustGtfLine(region_name,
                                IntOf[line.toks[m]] + 1,
                                IntOf[line.toks[m + 2]] + 1,
                                p.repeat_count))
       ELSE ReadNext(p)

(***************************************************************************)
(* TRF .dat lines                                                          *)
(***************************************************************************)
TrfToks(period, copy_number, percent_matches, score) ==
    <<"100", "130", period, copy_number, "8", percent_matches, "0", score,
      "25", "25", "25", "25", "1.9", "ACGTACGT", "ACGTACGTACGT">>

TrfLines ==
    { Line(FALSE, TrfToks("8", "3.0", "85", "45")),
      Line(FALSE, TrfToks("12", "3.0", "85", "45")),
      Line(FALSE, TrfToks("12", "2.0", "75", "50")),
      Line(FALSE, TrfToks("8", "2.0", "85", "45")),
      Line(FALSE, TrfToks("8", "1.9", "85", "60")),
      Line(FALSE, TrfToks("10", "3.0", "85", "45")),
      Line(FALSE, TrfToks("8", "2.5", "80", "45")),
      Line(FALSE, TrfToks("8", "3.0", "75", "45")),
      Line(FALSE, TrfToks("12", "2.0", "70", "50")),
      Line(FALSE, TrfToks("12", "3.0", "65", "60")),
      Line(FALSE, TrfToks("8", "3.0", "n/a", "45")),       \* not a number
      Line(FALSE, Pop(TrfToks("8", "3.0", "85", "45"))),   \* 14 fields
      Line(TRUE, TrfToks("8", "3.0", "85", "60")),         \* indented
      Line(FALSE, <<"Sequence:", "chr1">>),
      Line(FALSE, <<>>) }

\* re.search(r"^\d+", line): no leading white space, first character a digit
TrfMatch(line) ==
    /\ ~line.lead
    /\ Len(line.toks) > 0
    /\ line.toks[1] \in DOMAIN FloatTenths

\* float(x) succeeds
IsFloat(t) == t \in DOMAIN FloatTenths

\* an acceptance test whose second branch wants more than two copies
TrfAcceptStrict(period, copy_number, percent_matches, score) ==
    \/ /\ score < 500
       /\ percent_matches >= 800
       /\ copy_number > 20
       /\ period < 100
    \/ /\ copy_number > 20
       /\ percent_matches >= 700
       /\ score >= 500

TrfAccept(period, copy_number, percent_matches, score) ==
    \/ /\ score < 500
       /\ percent_matches >= 800
       /\ copy_number > 20
       /\ period < 100
    \/ /\ copy_number >= 20
       /\ percent_matches >= 700
       /\ score >= 500

TrfGtfLine(region_name, results, repeat_count) ==
    [region |-> region_name,
     source |-> "TRF",
     feature |-> "repeat",
     start |-> Field(results, 0),
     end |-> Field(results, 1),
     strand |-> "+",
     repeat_id |-> repeat_count,
     score |-> FloatTenths[Field(results, 7)],
     repeat_consensus |-> Field(results, 13)]

\* one iteration of the while loop of create_trf_gtf
TrfIter(p, region_name) ==
    LET line == p.lines[p.pos]
        results == line.toks
    IN IF TrfMatch(line)
       THEN IF Len(results) # 15
            THEN p              \* continue: the next line is never read
            ELSE IF \E i \in {2, 3, 5, 7} : ~IsFloat(Field(results, i))
                 THEN [p EXCEPT !.raised = TRUE]      \* ValueError
                 ELSE IF TrfAccept(FloatTenths[Field(results, 2)],
                                   FloatTenths[Field(results, 3)],
                                   FloatTenths[Field(results, 5)],
                                   FloatTenths[Field(results, 7)])
                      THEN Emit(p, TrfGtfLine(region_name, results,
                                              p.repeat_count))
                      ELSE ReadNext(p)
       ELSE ReadNext(p)

(***************************************************************************)
(* The three parsers behind one name                                       *)
(***************************************************************************)
RawLines(fam) ==
    CASE fam = "masker" -> RmLines
      [] fam = "dust" -> DustLines
      [] fam = "trf" -> TrfLines

Iter(fam, p, region_name) ==
    CASE fam = "masker" -> RmIter(p, region_name)
      [] fam = "dust" -> DustIter(p, region_name)
      [] fam = "trf" -> TrfIter(p, region_name)

\* the loop has reached a line it never leaves
Stuck(fam, p, region_name) ==
    /\ ~AtEof(p)
    /\ ~p.raised
    /\ Iter(fam, p, region_name) = p

\* the whole while loop: the pass at end of file, at an exception, or at
\* the line it spins on
RECURSIVE Loop(_, _, _)
Loop(fam, p, region_name) ==
    IF AtEof(p) \/ p.raised \/ Stuck(fam, p, region_name)
    THEN p
    ELSE Loop(fam, Iter(fam, p, region_name), region_name)

(***************************************************************************)
(* Files.  A file is [exists, data]; a directory maps the paths that exist *)
(* to their contents.  The per-slice path <<slice_id, ext>> stands for     *)
(* region_name + ".rs" + str(start) + ".re" + str(end) + ext.              *)
(***************************************************************************)
NoFile == [exists |-> FALSE, data |-> <<>>]
File(data) == [exists |-> TRUE, data |-> data]

Exists(dir, path) == path \in DOMAIN dir

WriteFile(dir, path, data) ==
    [q \in DOMAIN dir \cup {path} |-> IF q = path THEN data ELSE dir[q]]

\* os.remove(path)
Remove(dir, path) == [q \in DOMAIN dir \ {path} |-> dir[q]]

\* if os.path.exists(path): os.remove(path)
RemoveIfExists(dir, path) == IF Exists(dir, path) THEN Remove(dir, path) ELSE dir

FaExt == ".fa"

\* the raw output file of the tool
RawExt(fam) ==
    CASE fam = "masker" -> ".fa.out"
      [] fam = "dust" -> ".fa.dust"
      [] fam = "trf" -> ".fa.2.5.7.80.10.40.500.dat"

\* the canonical per-slice record file
ResultsExt(fam) ==
    CASE fam = "masker" -> ".fa.rm.gtf"
      [] fam = "dust" -> ".dust.gtf"
      [] fam = "trf" -> ".trf.gtf"

\* the other files RepeatMasker may leave next to its input
RmScratchExts == {".fa.masked", ".fa.tbl", ".fa.log", ".fa.cat"}

\* lines 151-154: what is appended to the input file's path
RmFaSuffixes == {".masked", ".tbl", ".log", ".cat"}

(***************************************************************************)
(* Collaborators that are called but not defined in the file               *)
(***************************************************************************)
Min(a, b) == IF a <= b THEN a ELSE b

\* get_seq_region_lengths(genome_file, min_length): the ordered inventory
get_seq_region_lengths(genome, min_seq_length) == genome

\* consecutive windows [start, end) of one region, from start upwards
RECURSIVE Windows(_, _, _, _)
Windows(name, length, slice_size, start) ==
    IF start >= length
    THEN <<>>
    ELSE <<<<name, start, Min(start + slice_size, length)>>>>
         \o Windows(name, length, slice_size, start + slice_size)

\* create_slice_ids(seq_region_lengths, slice_size, overlap, min_length)
RECURSIVE create_slice_ids(_, _, _, _)
create_slice_ids(seq_region_lengths, slice_size, overlap, min_length) ==
    IF seq_region_lengths = <<>>
    THEN <<>>
    ELSE LET region == Head(seq_region_lengths)
         IN (IF region.length < min_length
             THEN <<>>
             ELSE Windows(region.name, region.length, slice_size, 0))
            \o create_slice_ids(Tail(seq_region_lengths), slice_size,
                                overlap, min_length)

\* check_gtf_content(file, feature_type): number of feature lines
RECURSIVE check_gtf_content(_, _)
check_gtf_content(data, feature_type) ==
    IF data = <<>>
    THEN 0
    ELSE (IF Head(data).feature = feature_type THEN 1 ELSE 0)
         + check_gtf_content(Tail(data), feature_type)

\* glob.glob(output_dir + "/*" + extension) applied to a per-slice path
GlobMatch(path, extension) ==
    <<path[2], extension>> \in { <<".fa.rm.gtf", ".rm.gtf">>,
                                 <<".dust.gtf", ".dust.gtf">>,
                                 <<".trf.gtf", ".trf.gtf">> }

\* the concatenations of the given files, one per listing order
RECURSIVE Concats(_, _)
Concats(dir, paths) ==
    IF paths = {}
    THEN { <<>> }
    ELSE UNION { { dir[q] \o rest : rest \in Concats(dir, paths \ {q}) } :
                 q \in paths }

\* a merge that numbers the records of the final file 1, 2, ...
slice_output_to_gtfUniqueIds(dir, extension) ==
    { [k \in 1..Len(data) |-> [data[k] EXCEPT !.repeat_id = k]] :
        data \in Concats(dir, { q \in DOMAIN dir : GlobMatch(q, extension) }) }

\* slice_output_to_gtf(output_dir, extension, ...): the contents the final
\* file can get, depending on the listing order of the directory
slice_output_to_gtf(dir, extension) ==
    Concats(dir, { q \in DOMAIN dir : GlobMatch(q, extension) })

GlobSuffix(fam) ==
    CASE fam = "masker" -> ".rm.gtf"
      [] fam = "dust" -> ".dust.gtf"
      [] fam = "trf" -> ".trf.gtf"

(***************************************************************************)
(* The orchestrators                                                       *)
(***************************************************************************)
SliceSize == 1000000
Overlap == 0
MinRegionLength == 5000

Region(name, length) == [name |-> name, length |-> length]

\* genomes the orchestrators are run on
Genomes ==
    { <<Region("chr1", 1200000), Region("chr2", 3000)>>,
      <<Region("chr1", 5000), Region("chr2", 5000)>>,
      <<Region("chr1", 3000)>> }

\* a feature line of an earlier complete run, and a line that is not one
OldRecord == DustGtfLine("chr1", 13, 46, 1)
JunkLine == [feature |-> "#comment"]

\* what annotation.gtf can be when the first call starts
InitialFinals == { NoFile, File(<<>>), File(<<JunkLine>>), File(<<OldRecord>>) }

\* a call that passes no minimum region length
ComputeSliceIdsNoMinimum(genome) ==
    create_slice_ids(get_seq_region_lengths(genome, 0), SliceSize, Overlap, 0)

\* lines 61-62, 259-260, 369-370
ComputeSliceIds(genome) ==
    create_slice_ids(get_seq_region_lengths(genome, MinRegionLength),
                     SliceSize, Overlap, MinRegionLength)

\* a resume check that looks at the existence of the file only
SkipAnalysisAnyFile(output_file) == output_file.exists

\* lines 52-56, 250-254, 360-364: the resume check
SkipAnalysis(output_file) ==
    /\ output_file.exists
    /\ check_gtf_content(output_file.data, "repeat") > 0

OutputDir(fam) ==
    CASE fam = "masker" -> "repeatmasker_output"
      [] fam = "dust" -> "dust_output"
      [] fam = "trf" -> "trf_output"

\* line 48: only run_repeatmasker_regions changes directory
EntryCwd(fam, dir) == IF fam = "masker" THEN OutputDir(fam) ELSE dir

\* a pool with one process more than asked for
PoolSizePlusOne(n) == n + 1

\* line 102: multiprocessing.Pool(int(num_threads))
PoolSize(n) == n

IdleWorker(dir) == [wpc |-> "idle", task |-> 0, cwd |-> dir]

NewHist(n, output_file, previous) ==
    [skipped |-> FALSE,
     slices_computed |-> FALSE,
     dispatched |-> 0,
     merge_calls |-> 0,
     entry_final |-> output_file,
     prev |-> previous,
     started |-> [i \in 1..n |-> 0],
     state |-> [i \in 1..n |-> "new"],
     tool_exit |-> [i \in 1..n |-> 0],
     tool_wrote |-> [i \in 1..n |-> FALSE],
     raw_before |-> [i \in 1..n |-> FALSE],
     emitted |-> [i \in 1..n |-> <<>>]]

NoPrev == [called |-> FALSE, skipped |-> FALSE, final |-> NoFile,
           emitted_any |-> FALSE]

\* the defaults of the variables a stand-alone pass does not use
MainIdle ==
    /\ family = "masker"
    /\ pc = "idle"
    /\ run = 0
    /\ num_threads = 1
    /\ inventory = <<>>
    /\ slice_ids = <<>>
    /\ next_i = 1
    /\ queue = <<>>
    /\ workers = [w \in 1..1 |-> IdleWorker("caller_dir")]
    /\ fs = <<>>
    /\ final = NoFile
    /\ cwd = "caller_dir"
    /\ hist = NewHist(0, NoFile, NoPrev)

IdleParser == [fam |-> "masker", status |-> "unused", infile |-> NoFile,
               outfile |-> NoFile, pass |-> StartPass(<<>>)]

IdleSlicer == [status |-> "unused", seq_region_lengths |-> <<>>,
               slice_ids |-> <<>>]

IdleNamer == [status |-> "unused", fam |-> "masker", a |-> <<"", 0, 0>>,
              b |-> <<"", 0, 0>>, files_a |-> {}, files_b |-> {}]

IdleBuilder == [status |-> "unused", repeatmasker_path |-> "", library |-> "",
                species |-> "", repeatmasker_output_dir |-> "", cmd |-> <<>>]

Init ==
    /\ family \in Families
    /\ pc = "idle"
    /\ run = 0
    /\ num_threads \in 1..MaxWorkers
    /\ inventory \in Genomes
    /\ slice_ids = <<>>
    /\ next_i = 1
    /\ queue = <<>>
    /\ workers = [w \in 1..num_threads |-> IdleWorker("caller_dir")]
    /\ fs = <<>>
    /\ final \in InitialFinals
    /\ cwd = "caller_dir"
    /\ hist = NewHist(0, NoFile, NoPrev)
    /\ parser = IdleParser
    /\ slicer = IdleSlicer
    /\ namer = IdleNamer
    /\ builder = IdleBuilder

\* run_*_regions from its entry to the creation of the pool, or to the
\* return of the resume check
Call ==
    /\ \/ pc = "idle"
       \/ pc = "returned" /\ run < MaxRuns
    /\ run' = run + 1
    /\ cwd' = EntryCwd(family, cwd)
    /\ LET previous == [called |-> pc = "returned",
                        skipped |-> hist.skipped,
                        final |-> final,
                        emitted_any |-> \E i \in DOMAIN hist.emitted :
                                            hist.emitted[i] # <<>>]
       IN IF SkipAnalysis(final)
          THEN /\ pc' = "returned"
               /\ slice_ids' = <<>>
               /\ hist' = [NewHist(0, final, previous) EXCEPT !.skipped = TRUE]
               /\ workers' = [w \in 1..num_threads |-> IdleWorker(cwd')]
          ELSE /\ pc' = "dispatch"
               /\ slice_ids' = ComputeSliceIds(inventory)
               /\ hist' = [NewHist(Len(slice_ids'), final, previous)
                             EXCEPT !.slices_computed = TRUE]
               /\ workers' = [w \in 1..PoolSize(num_threads) |->
                                 IdleWorker(cwd')]
    /\ next_i' = 1
    /\ queue' = <<>>
    /\ UNCHANGED <<family, num_threads, inventory, fs, final, parser, slicer,
                   namer, builder>>

\* a dispatch loop that submits every slice twice
DispatchTwice ==
    /\ pc = "dispatch"
    /\ next_i <= Len(slice_ids)
    /\ queue' = queue \o <<next_i, next_i>>
    /\ next_i' = next_i + 1
    /\ hist' = [hist EXCEPT !.dispatched = hist.dispatched + 1,
                            !.state[next_i] = "queued"]
    /\ UNCHANGED <<family, pc, run, num_threads, inventory, slice_ids,
                   workers, fs, final, cwd, parser, slicer,
                   namer, builder>>

\* one pool.apply_async(...) of the dispatch loop
Dispatch ==
    /\ pc = "dispatch"
    /\ next_i <= Len(slice_ids)
    /\ queue' = Append(queue, next_i)
    /\ next_i' = next_i + 1
    /\ hist' = [hist EXCEPT !.dispatched = hist.dispatched + 1,
                            !.state[next_i] = "queued"]
    /\ UNCHANGED <<family, pc, run, num_threads, inventory, slice_ids,
                   workers, fs, final, cwd, parser, slicer,
                   namer, builder>>

\* pool.close() after the loop
Close ==
    /\ pc = "dispatch"
    /\ next_i > Len(slice_ids)
    /\ pc' = "join"
    /\ UNCHANGED <<family, run, num_threads, inventory, slice_ids, next_i,
                   queue, workers, fs, final, cwd, hist, parser, slicer,
                   namer, builder>>

\* a join that only waits for the task queue to be empty
PoolDrainedQueueOnly == queue = <<>>

\* every submitted task has been taken and has ended
PoolDrained ==
    /\ queue = <<>>
    /\ \A w \in DOMAIN workers : workers[w].wpc = "idle"

\* pool.join() returns
Join ==
    /\ pc = "join"
    /\ PoolDrained
    /\ pc' = "merge"
    /\ UNCHANGED <<family, run, num_threads, inventory, slice_ids, next_i,
                   queue, workers, fs, final, cwd, hist, parser, slicer,
                   namer, builder>>

\* slice_output_to_gtf(...) and the return of the orchestrator
Merge ==
    /\ pc = "merge"
    /\ \E data \in slice_output_to_gtf(fs, GlobSuffix(family)) :
          final' = File(data)
    /\ pc' = "returned"
    /\ hist' = [hist EXCEPT !.merge_calls = hist.merge_calls + 1]
    /\ UNCHANGED <<family, run, num_threads, inventory, slice_ids, next_i,
                   queue, workers, fs, cwd, parser, slicer,
                   namer, builder>>

(***************************************************************************)
(* The slice workers                                                       *)
(***************************************************************************)
Outcome(exit, raw, scratch) == [exit |-> exit, raw |-> raw, scratch |-> scratch]

RmHeader == Line(FALSE, <<"SW", "perc", "perc">>)
RmPlus == Line(TRUE, RmToks("239", "+"))
RmMinusStar == Line(TRUE, RmToks("45", "C") \o <<"*">>)
RmCut == Line(TRUE, Pop(RmToks("239", "+")))

DustHeader == Line(FALSE, <<">chr", "1">>)
DustInterval == Line(FALSE, <<"12", " - ", "45">>)

TrfHeader == Line(FALSE, <<"Sequence:", "chr1">>)
TrfKept == Line(FALSE, TrfToks("8", "3.0", "85", "45"))
TrfDropped == Line(FALSE, TrfToks("12", "3.0", "85", "45"))
TrfCut == Line(FALSE, Pop(TrfToks("8", "3.0", "85", "45")))
TrfNaN == Line(FALSE, TrfToks("8", "3.0", "n/a", "45"))

\* what one run of the external tool can leave behind: its exit status, the
\* raw output it wrote (none, complete or cut short) and, for RepeatMasker,
\* the side files
ToolOutcomes(fam) ==
    CASE fam = "masker" ->
           { Outcome(0, File(<<RmHeader, RmPlus>>), RmScratchExts),
             Outcome(0, File(<<RmHeader>>), {".fa.log"}),
             Outcome(1, File(<<RmMinusStar>>), RmScratchExts),
             Outcome(1, NoFile, {}),
             Outcome(1, File(<<RmPlus, RmCut>>), {".fa.log", ".fa.cat"}) }
      [] fam = "dust" ->
           { Outcome(0, File(<<DustHeader, DustInterval>>), {}),
             Outcome(0, File(<<DustHeader>>), {}),
             Outcome(1, File(<<>>), {}) }
      [] fam = "trf" ->
           { Outcome(0, File(<<TrfHeader, TrfKept>>), {}),
             Outcome(0, File(<<TrfDropped>>), {}),
             Outcome(1, File(<<TrfKept>>), {}),
             Outcome(1, NoFile, {}),
             Outcome(1, File(<<TrfKept, TrfCut>>), {}),
             Outcome(0, File(<<TrfKept, TrfNaN>>), {}) }

RECURSIVE WriteAll(_, _, _)
WriteAll(dir, slice_id, exts) ==
    IF exts = {}
    THEN dir
    ELSE LET e == CHOOSE x \in exts : TRUE
         IN WriteAll(WriteFile(dir, <<slice_id, e>>, <<>>), slice_id,
                     exts \ {e})

\* the files of the output directory after the tool has run
AfterTool(fam, dir, slice_id, outcome) ==
    LET raw_path == <<slice_id, RawExt(fam)>>
        with_raw == IF outcome.raw.exists
                    THEN WriteFile(dir, raw_path, outcome.raw.data)
                    ELSE dir
    IN WriteAll(with_raw, slice_id, outcome.scratch)

\* lines 165-175
RmCleanup(dir, slice_id) ==
    LET d1 == Remove(dir, <<slice_id, FaExt>>)
        d2 == RemoveIfExists(d1, <<slice_id, ResultsExt("masker")>>)
        d3 == RemoveIfExists(d2, <<slice_id, ".fa.masked">>)
        d4 == RemoveIfExists(d3, <<slice_id, ".fa.tbl">>)
        d5 == RemoveIfExists(d4, <<slice_id, ".fa.log">>)
    IN RemoveIfExists(d5, <<slice_id, ".fa.cat">>)

\* lines 317-318
DustCleanup(dir, slice_id) ==
    Remove(Remove(dir, <<slice_id, RawExt("dust")>>), <<slice_id, FaExt>>)

\* lines 467-468
TrfCleanup(dir, slice_id) ==
    Remove(Remove(dir, <<slice_id, RawExt("trf")>>), <<slice_id, FaExt>>)

Cleanup(fam, dir, slice_id) ==
    CASE fam = "masker" -> RmCleanup(dir, slice_id)
      [] fam = "dust" -> DustCleanup(dir, slice_id)
      [] fam = "trf" -> TrfCleanup(dir, slice_id)

\* a pool whose worker process dies with the exception of its task
TaskRaisedKillsWorker(wk, w) == [wk EXCEPT ![w].wpc = "dead"]

\* the pool worker after its task has raised: apply_async keeps the
\* exception in a result nobody reads, and the worker is free again
TaskRaised(wk, w) == [wk EXCEPT ![w].wpc = "idle", ![w].task = 0]

\* a pool worker takes the next task: the work function up to the point
\* where the input sequence file is written
WorkerStart(w) ==
    /\ pc \in {"dispatch", "join"}
    /\ workers[w].wpc = "idle"
    /\ queue # <<>>
    /\ LET i == Head(queue)
       IN /\ queue' = Tail(queue)
          /\ workers' = [workers EXCEPT ![w].wpc = "tool", ![w].task = i]
          /\ fs' = WriteFile(fs, <<slice_ids[i], FaExt>>, <<"seq">>)
          /\ hist' = [hist EXCEPT
                        !.started[i] = hist.started[i] + 1,
                        !.state[i] = "running",
                        !.raw_before[i] =
                            Exists(fs, <<slice_ids[i], RawExt(family)>>)]
    /\ UNCHANGED <<family, pc, run, num_threads, inventory, slice_ids,
                   next_i, final, cwd, parser, slicer,
                   namer, builder>>

\* subprocess.run(...) of the work function, with the statements before it
WorkerRunTool(w) ==
    /\ workers[w].wpc = "tool"
    /\ LET i == workers[w].task
           slice_id == slice_ids[i]
           ready == IF family = "dust"
                    THEN WriteFile(fs, <<slice_id, RawExt("dust")>>, <<>>)
                    ELSE fs
       IN \E outcome \in ToolOutcomes(family) :
            /\ fs' = AfterTool(family, ready, slice_id, outcome)
            /\ hist' = [hist EXCEPT !.tool_exit[i] = outcome.exit,
                                    !.tool_wrote[i] =
                                        /\ outcome.raw.exists
                                        /\ family = "dust" =>
                                               outcome.raw.data # <<>>]
    /\ workers' = [workers EXCEPT
                     ![w].wpc = "parse",
                     ![w].cwd = IF family = "trf" THEN OutputDir("trf")
                                ELSE workers[w].cwd]
    /\ UNCHANGED <<family, pc, run, num_threads, inventory, slice_ids,
                   next_i, queue, final, cwd, parser, slicer,
                   namer, builder>>

\* create_*_gtf(...) of the work function
WorkerParse(w) ==
    /\ workers[w].wpc = "parse"
    /\ LET i == workers[w].task
           slice_id == slice_ids[i]
           raw_path == <<slice_id, RawExt(family)>>
           results_path == <<slice_id, ResultsExt(family)>>
       IN IF ~Exists(fs, raw_path)
          THEN \* open(..., "r") raises: the task ends, the pool keeps it
               /\ workers' = TaskRaised(workers, w)
               /\ hist' = [hist EXCEPT !.state[i] = "failed"]
               /\ fs' = fs
          ELSE LET p == Loop(family, StartPass(fs[raw_path]), slice_id[1])
               IN IF p.raised
                  THEN /\ workers' = TaskRaised(workers, w)
                       /\ hist' = [hist EXCEPT !.state[i] = "failed",
                                               !.emitted[i] = p.out]
                       /\ fs' = WriteFile(fs, results_path, p.out)
                  ELSE IF ~AtEof(p)
                  THEN \* the loop never ends; nothing is flushed or closed
                       /\ workers' = [workers EXCEPT ![w].wpc = "spin"]
                       /\ hist' = hist
                       /\ fs' = WriteFile(fs, results_path, <<>>)
                  ELSE /\ workers' = [workers EXCEPT ![w].wpc = "cleanup"]
                       /\ hist' = [hist EXCEPT !.emitted[i] = p.out]
                       /\ fs' = WriteFile(fs, results_path, p.out)
    /\ UNCHANGED <<family, pc, run, num_threads, inventory, slice_ids,
                   next_i, queue, final, cwd, parser, slicer,
                   namer, builder>>

\* the os.remove(...) calls and the return of the work function
WorkerCleanup(w) ==
    /\ workers[w].wpc = "cleanup"
    /\ LET i == workers[w].task
       IN /\ fs' = Cleanup(family, fs, slice_ids[i])
          /\ hist' = [hist EXCEPT !.state[i] = "done"]
    /\ workers' = [workers EXCEPT ![w].wpc = "idle", ![w].task = 0]
    /\ UNCHANGED <<family, pc, run, num_threads, inventory, slice_ids,
                   next_i, queue, final, cwd, parser, slicer,
                   namer, builder>>

Next ==
    \/ Call
    \/ Dispatch
    \/ Close
    \/ Join
    \/ Merge
    \/ \E w \in DOMAIN workers : WorkerStart(w)
    \/ \E w \in DOMAIN workers : WorkerRunTool(w)
    \/ \E w \in DOMAIN workers : WorkerParse(w)
    \/ \E w \in DOMAIN workers : WorkerCleanup(w)

Spec == Init /\ [][Next]_vars

(***************************************************************************)
(* A first call that is killed before it returns, and called again         *)
(***************************************************************************)
\* the process and its pool are killed inside the dispatch loop, while the
\* workers already run; the files written so far stay
InterruptRun ==
    /\ pc = "dispatch"
    /\ next_i <= Len(slice_ids)
    /\ run = 1
    /\ pc' = "idle"
    /\ queue' = <<>>
    /\ workers' = [w \in DOMAIN workers |-> IdleWorker(cwd)]
    /\ UNCHANGED <<family, run, num_threads, inventory, slice_ids, next_i,
                   fs, final, cwd, hist, parser, slicer, namer, builder>>

\* the process is killed while slice_output_to_gtf writes the final file:
\* the file holds the lines written so far
InterruptMerge ==
    /\ pc = "merge"
    /\ run = 1
    /\ \E data \in slice_output_to_gtf(fs, GlobSuffix(family)) :
       \E n \in 0..Len(data) :
          /\ n < Len(data)
          /\ final' = File(SubSeq(data, 1, n))
    /\ pc' = "idle"
    /\ UNCHANGED <<family, run, num_threads, inventory, slice_ids, next_i,
                   queue, workers, fs, cwd, hist, parser, slicer,
                   namer, builder>>

NextCrash ==
    \/ Next
    \/ InterruptRun
    \/ InterruptMerge

CrashSpec == Init /\ [][NextCrash]_vars

\* any step of pool worker w
WorkerStep(w) ==
    /\ w \in DOMAIN workers
    /\ \/ WorkerStart(w)
       \/ WorkerRunTool(w)
       \/ WorkerParse(w)
       \/ WorkerCleanup(w)

\* the orchestrating process and every pool worker are scheduled fairly;
\* the caller is free never to call again
FairSpec ==
    /\ Spec
    /\ WF_vars(Dispatch)
    /\ WF_vars(Close)
    /\ WF_vars(Join)
    /\ WF_vars(Merge)
    /\ \A w \in 1..MaxWorkers : WF_vars(WorkerStep(w))

TypeOK ==
    /\ pc \in {"idle", "dispatch", "join", "merge", "returned"}
    /\ run \in 0..MaxRuns
    /\ \A w \in DOMAIN workers :
          workers[w].wpc \in {"idle", "tool", "parse", "cleanup", "spin"}
    /\ DOMAIN workers = 1..num_threads

(***************************************************************************)
(* A parse pass on its own: create_*_gtf applied to any raw file of up to  *)
(* MaxLines lines                                                          *)
(***************************************************************************)
SeqsUpTo(S, n) == UNION { [1..k -> S] : k \in 0..n }

ParseRegion == "chr1"

InitParse ==
    /\ MainIdle
    /\ slicer = IdleSlicer
    /\ namer = IdleNamer
    /\ builder = IdleBuilder
    /\ \E fam \in Families :
       \E infile \in {NoFile} \cup
                     { File(ls) : ls \in SeqsUpTo(RawLines(fam), MaxLines) } :
          parser = [fam |-> fam, status |-> "start", infile |-> infile,
                    outfile |-> NoFile, pass |-> StartPass(<<>>)]

\* the two open(...) calls and the first readline()
ParseOpen ==
    /\ parser.status = "start"
    /\ parser' = IF parser.infile.exists
                 THEN [parser EXCEPT !.status = "loop",
                                     !.outfile = File(<<>>),
                                     !.pass = StartPass(parser.infile.data)]
                 ELSE [parser EXCEPT !.status = "raised"]
    /\ UNCHANGED <<mainvars, slicer, namer, builder>>

\* one iteration of the while loop
ParseIter ==
    /\ parser.status = "loop"
    /\ ~AtEof(parser.pass)
    /\ LET p == Iter(parser.fam, parser.pass, ParseRegion)
       IN parser' = IF p.raised
                    THEN [parser EXCEPT !.status = "raised",
                                        !.pass = p,
                                        !.outfile = File(p.out)]
                    ELSE [parser EXCEPT !.pass = p]
    /\ UNCHANGED <<mainvars, slicer, namer, builder>>

\* the loop ends at end of file; both files are closed
ParseClose ==
    /\ parser.status = "loop"
    /\ AtEof(parser.pass)
    /\ parser' = [parser EXCEPT !.status = "closed",
                                !.outfile = File(parser.pass.out)]
    /\ UNCHANGED <<mainvars, slicer, namer, builder>>

NextParse == ParseOpen \/ ParseIter \/ ParseClose

SpecParse == InitParse /\ [][NextParse]_vars

(***************************************************************************)
(* The slice list on its own: lines 61-62 applied to any inventory of up   *)
(* to MaxRegions regions                                                   *)
(***************************************************************************)
RegionNames == <<"chr1", "chr2", "chr3", "chr4">>

RegionLengths == {0, 3000, 4999, 5000, 5001, 999999, 1000000, 1000001,
                  1200000, 2000000, 2000001}

InitSlice ==
    /\ MainIdle
    /\ parser = IdleParser
    /\ namer = IdleNamer
    /\ builder = IdleBuilder
    /\ \E inv \in SeqsUpTo(RegionLengths, MaxRegions) :
          slicer = [status |-> "start",
                    seq_region_lengths |->
                        [i \in 1..Len(inv) |-> Region(RegionNames[i], inv[i])],
                    slice_ids |-> <<>>]

\* lines 60-62
Slice ==
    /\ slicer.status = "start"
    /\ slicer' = [slicer EXCEPT
                    !.status = "done",
                    !.slice_ids = ComputeSliceIds(slicer.seq_region_lengths)]
    /\ UNCHANGED <<mainvars, parser, namer, builder>>

NextSlice == Slice

SpecSlice == InitSlice /\ [][NextSlice]_vars

(***************************************************************************)
(* The file names of two slices of one slice list: lines 141-154, 299-308  *)
(* and 449-461 applied to any two distinct slice ids                       *)
(***************************************************************************)
NameRegions == {"c", "c1", "c.rs1", "c.rs1.re1", "c.rs1.re1.fa", "c.fa"}

NamePositions == {1, 11, 111}

NameSlices == NameRegions \X NamePositions \X NamePositions

\* a file name without the ".rs" and ".re" markers
slice_file_nameNoMarkers(slice_id) ==
    slice_id[1] \o ToString(slice_id[2]) \o ToString(slice_id[3])

\* lines 141, 299, 449
slice_file_name(slice_id) ==
    slice_id[1] \o ".rs" \o ToString(slice_id[2])
               \o ".re" \o ToString(slice_id[3])

\* the names of the files the worker of a slice creates, writes or deletes
WorkerFiles(fam, slice_id) ==
    LET base == slice_file_name(slice_id)
    IN {base \o FaExt, base \o RawExt(fam), base \o ResultsExt(fam)}
       \cup (IF fam = "masker" THEN { base \o FaExt \o e : e \in RmFaSuffixes }
                               ELSE {})

InitNames ==
    /\ MainIdle
    /\ parser = IdleParser
    /\ slicer = IdleSlicer
    /\ builder = IdleBuilder
    /\ \E fam \in Families : \E a \in NameSlices, b \in NameSlices :
          /\ a # b
          /\ namer = [status |-> "start", fam |-> fam, a |-> a, b |-> b,
                      files_a |-> {}, files_b |-> {}]

\* the names the two workers build
NameFiles ==
    /\ namer.status = "start"
    /\ namer' = [namer EXCEPT !.status = "done",
                              !.files_a = WorkerFiles(namer.fam, namer.a),
                              !.files_b = WorkerFiles(namer.fam, namer.b)]
    /\ UNCHANGED <<mainvars, parser, slicer, builder>>

NextNames == NameFiles

SpecNames == InitNames /\ [][NextNames]_vars

(***************************************************************************)
(* The RepeatMasker command line: lines 40-44 and 64-99 applied to any     *)
(* combination of tool path, library and species                           *)
(***************************************************************************)
\* Python's None among the string arguments
None == "<None>"

\* not x, for x a string or None
Not(x) == x = None \/ x = ""

CmdPaths == {None, "", "/opt/RepeatMasker"}
CmdLibraries == {None, "", "homo", "mouse", "custom.lib"}
CmdSpecies == {None, "", "homo", "mouse"}
CmdOutputDirs == {"out/repeatmasker_output", "work/repeatmasker_output"}

\* lines 40-41
DefaultPath(repeatmasker_path) ==
    IF Not(repeatmasker_path) THEN "RepeatMasker" ELSE repeatmasker_path

\* an orchestrator that leaves an empty library empty
DefaultLibraryNone(library) == library

\* lines 43-44
DefaultLibrary(library) == IF Not(library) THEN "homo" ELSE library

\* lines 64-99
generic_repeatmasker_cmd(repeatmasker_path, library, species, output_dir) ==
    IF Not(library)
    THEN IF Not(species)
         THEN <<repeatmasker_path, "-nolow", "-species", "homo",
                "-engine", "crossmatch", "-dir", output_dir>>
         ELSE <<repeatmasker_path, "-nolow", "-species", species,
                "-engine", "crossmatch", "-dir", output_dir>>
    ELSE <<repeatmasker_path, "-nolow", "-lib", library,
           "-engine", "crossmatch", "-dir", output_dir>>

InitCmd ==
    /\ MainIdle
    /\ parser = IdleParser
    /\ slicer = IdleSlicer
    /\ namer = IdleNamer
    /\ \E path \in CmdPaths, library \in CmdLibraries, species \in CmdSpecies,
          dir \in CmdOutputDirs :
          builder = [status |-> "start", repeatmasker_path |-> path,
                     library |-> library, species |-> species,
                     repeatmasker_output_dir |-> dir, cmd |-> <<>>]

\* run_repeatmasker_regions from its entry to the command it hands to the
\* workers
BuildCmd ==
    /\ builder.status = "start"
    /\ builder' = [builder EXCEPT
                     !.status = "done",
                     !.cmd = generic_repeatmasker_cmd(
                                 DefaultPath(builder.repeatmasker_path),
                                 DefaultLibrary(builder.library),
                                 builder.species,
                                 builder.repeatmasker_output_dir)]
    /\ UNCHANGED <<mainvars, parser, slicer, namer>>

NextCmd == BuildCmd

SpecCmd == InitCmd /\ [][NextCmd]_vars

(***************************************************************************)
(* Properties of the orchestrators and the pool (Spec)                     *)
(***************************************************************************)
Slices == 1..Len(slice_ids)

Ended(i) == hist.state[i] \in {"done", "failed"}

ResultsPath(i) == <<slice_ids[i], ResultsExt(family)>>

\* the records the canonical file of slice i holds
Contributed(i) == IF Exists(fs, ResultsPath(i)) THEN fs[ResultsPath(i)] ELSE <<>>

\* C1: the orchestrator skips the pipeline exactly when, at entry,
\* annotation.gtf exists and holds at least one feature line; a skipped call
\* computes no slice list, dispatches nothing and does not merge; every
\* other call that returns has computed the slices, dispatched each of them
\* and merged once.
Thm_C1_ResumeSkip ==
    pc # "idle" =>
        /\ hist.skipped <=>
              /\ hist.entry_final.exists
              /\ \E k \in DOMAIN hist.entry_final.data :
                    hist.entry_final.data[k].feature = "repeat"
        /\ hist.skipped =>
              /\ pc = "returned"
              /\ ~hist.slices_computed
              /\ slice_ids = <<>>
              /\ hist.dispatched = 0
              /\ hist.merge_calls = 0
              /\ queue = <<>>
              /\ \A w \in DOMAIN workers : workers[w].wpc = "idle"
        /\ (~hist.skipped /\ pc = "returned") =>
              /\ hist.slices_computed
              /\ hist.dispatched = Len(slice_ids)
              /\ \A i \in Slices : hist.started[i] >= 1
              /\ hist.merge_calls = 1

\* a call that found annotation.gtf with a feature line and returned at once
Wit_C1_Skipped ==
    /\ pc = "returned"
    /\ hist.skipped
    /\ hist.entry_final.exists

\* C2: while the merge step runs, no slice task is pending or running.
Thm_C2_MergeAfterJoin ==
    pc = "merge" =>
        /\ queue = <<>>
        /\ next_i > Len(slice_ids)
        /\ \A i \in Slices : Ended(i)
        /\ \A w \in DOMAIN workers : workers[w].wpc = "idle"

\* the merge step about to run after a batch of two slices
Wit_C2_Merging ==
    /\ pc = "merge"
    /\ Len(slice_ids) >= 2
    /\ num_threads >= 2

\* C3: the work function is started at most once per slice, and exactly
\* once for every slice by the time the join barrier is passed.
Thm_C3_OncePerSlice ==
    /\ \A i \in Slices : hist.started[i] <= 1
    /\ \A i, j \in Slices : slice_ids[i] = slice_ids[j] => i = j
    /\ \A w, v \in DOMAIN workers :
          (workers[w].task # 0 /\ workers[w].task = workers[v].task) => w = v
    /\ (pc \in {"merge", "returned"} /\ ~hist.skipped) =>
          \A i \in Slices : hist.started[i] = 1

\* two workers busy with the two slices of one list
Wit_C3_TwoWorkersBusy ==
    /\ Len(slice_ids) >= 2
    /\ \E w, v \in DOMAIN workers :
          /\ w # v
          /\ workers[w].task # 0
          /\ workers[v].task # 0

\* C4: once the join barrier is passed, the canonical file of every slice
\* whose worker ran to the end is in the output directory and holds the
\* records its parser emitted.
CE_C4_CanonicalKept ==
    pc = "merge" =>
        \A i \in Slices :
            hist.state[i] = "done" =>
                /\ Exists(fs, ResultsPath(i))
                /\ fs[ResultsPath(i)] = hist.emitted[i]

ScratchExts(fam) ==
    {FaExt, RawExt(fam)} \cup (IF fam = "masker" THEN RmScratchExts ELSE {})

\* C5: when a slice worker has returned, none of the scratch files of its
\* slice is left.
CE_C5_ScratchDeleted ==
    \A i \in Slices :
        hist.state[i] = "done" =>
            \A e \in ScratchExts(family) : ~Exists(fs, <<slice_ids[i], e>>)

\* the tool of slice i exited non-zero or left no output
ToolFailed(i) ==
    /\ Ended(i)
    /\ \/ hist.tool_exit[i] # 0
       \/ ~hist.tool_wrote[i]

\* C6 as stated: a slice whose tool exited non-zero or left no output file
\* contributes zero records, and the batch still processes every slice,
\* passes the join barrier and merges.
CE_C6_FailedSliceEmpty ==
    /\ \A i \in Slices : ToolFailed(i) => Contributed(i) = <<>>
    /\ (pc = "returned" /\ ~hist.skipped) =>
          /\ \A i \in Slices : Ended(i) /\ hist.started[i] = 1
          /\ hist.merge_calls = 1

\* C6 as amended: the exit status is not looked at.  A slice for which no
\* raw output exists (the tool wrote none and none was there before)
\* contributes zero records; a worker whose task raised is released by the
\* pool; a non-skipped call that returns has had every slice processed
\* once and has merged once.
Thm_C6_FailureIsolated ==
    /\ \A i \in Slices :
          (Ended(i) /\ ~hist.tool_wrote[i] /\ ~hist.raw_before[i]) =>
              /\ hist.emitted[i] = <<>>
              /\ Contributed(i) = <<>>
    /\ \A i \in Slices :
          hist.state[i] = "failed" =>
              \A w \in DOMAIN workers :
                  /\ workers[w].task # i
                  /\ workers[w].wpc # "dead"
    /\ (pc = "returned" /\ ~hist.skipped) =>
          /\ \A i \in Slices : Ended(i) /\ hist.started[i] = 1
          /\ hist.merge_calls = 1

\* a call has returned after one slice failed for lack of tool output and
\* another slice was processed to the end with records
Wit_C6_OneFailedOthersDone ==
    /\ pc = "returned"
    /\ ~hist.skipped
    /\ hist.merge_calls = 1
    /\ \E i, j \in Slices :
          /\ hist.state[i] = "failed"
          /\ ~hist.tool_wrote[i]
          /\ hist.state[j] = "done"
          /\ hist.emitted[j] # <<>>

\* C9: a call that follows a completed non-skipped call in which a slice
\* emitted a record skips: it dispatches nothing, does not merge and leaves
\* annotation.gtf as it was.
CE_C9_RerunSkips ==
    (/\ pc # "idle"
     /\ hist.prev.called
     /\ ~hist.prev.skipped
     /\ hist.prev.emitted_any) =>
        /\ hist.skipped
        /\ hist.dispatched = 0
        /\ hist.merge_calls = 0
        /\ final = hist.prev.final

(***************************************************************************)
(* Properties of the parsers (SpecParse)                                   *)
(***************************************************************************)
CurrentLine == parser.pass.lines[parser.pass.pos]

InLoop == parser.status = "loop" /\ ~AtEof(parser.pass)

\* the line starts with a numeric field but has not exactly 15 fields
\* (after a trailing '*' is dropped, for the masker)
ShortOrLongLine(fam, line) ==
    LET n == Len(line.toks)
        starred == n > 0 /\ line.toks[n] = "*"
    IN /\ n > 0
       /\ \/ /\ fam = "masker"
             /\ line.toks[1] \in DigitToks
             /\ (IF starred THEN n - 1 ELSE n) # 15
          \/ /\ fam = "trf"
             /\ ~line.lead
             /\ line.toks[1] \in DOMAIN FloatTenths
             /\ n # 15

\* C7: a line that starts with a numeric field but has not exactly 15
\* fields is skipped: the iteration that meets it writes no record and goes
\* on to the next line, so the pass can reach the end of the file.
CE_C7_MalformedLineSkipped ==
    (InLoop /\ ShortOrLongLine(parser.fam, CurrentLine)) =>
        LET q == Iter(parser.fam, parser.pass, ParseRegion)
        IN /\ q.pos = parser.pass.pos + 1
           /\ q.out = parser.pass.out
           /\ ~q.raised

\* the line is one the masker parser is to turn into a record
RmRecordLine(line) ==
    LET n == Len(line.toks)
    IN /\ n > 0
       /\ line.toks[1] \in DigitToks
       /\ \/ n = 15 /\ line.toks[15] # "*"
          \/ n = 16 /\ line.toks[16] = "*"

\* the record the masker parser is to write for the k-th such line
RmRecordOf(line, k) ==
    [region |-> ParseRegion,
     source |-> "RepeatMasker",
     feature |-> "repeat",
     start |-> line.toks[6],
     end |-> line.toks[7],
     strand |-> IF line.toks[9] = "+" THEN "+" ELSE "-",
     repeat_id |-> k,
     repeat_name |-> line.toks[10],
     repeat_class |-> line.toks[11],
     repeat_start |-> IF line.toks[9] = "+" THEN line.toks[12]
                      ELSE line.toks[14],
     repeat_end |-> line.toks[13],
     score |-> line.toks[1]]

RmExpected(lines) ==
    LET good == SelectSeq(lines, RmRecordLine)
    IN [k \in 1..Len(good) |-> RmRecordOf(good[k], k)]

\* C10: the masker parser writes exactly one record, with the stated field
\* mapping, for every line read so far that starts with a numeric score and
\* has 15 fields, and none for any other line; a closed pass has done so
\* for the whole file.
Thm_C10_MaskerMapping ==
    parser.fam = "masker" =>
        /\ parser.status = "loop" =>
              parser.pass.out =
                  RmExpected(SubSeq(parser.pass.lines, 1, parser.pass.pos - 1))
        /\ parser.status = "closed" =>
              /\ parser.outfile.exists
              /\ parser.outfile.data = RmExpected(parser.infile.data)

\* a closed masker pass that wrote a '+' record and a '-' record
Wit_C10_BothStrands ==
    /\ parser.fam = "masker"
    /\ parser.status = "closed"
    /\ Len(parser.outfile.data) = 2
    /\ parser.outfile.data[1].strand = "+"
    /\ parser.outfile.data[1].repeat_start = "11"
    /\ parser.outfile.data[2].strand = "-"
    /\ parser.outfile.data[2].repeat_start = "(7)"

(***************************************************************************)
(* Properties of the slice list (SpecSlice)                                *)
(***************************************************************************)
\* the positions of the slices of region name in a slice list
SlicesOf(out, name) == { k \in 1..Len(out) : out[k][1] = name }

TenthsAt(line, i) == FloatTenths[line.toks[i + 1]]

\* a 15-field line starting with a digit: a candidate repeat
TrfCandidate(line) ==
    /\ ~line.lead
    /\ Len(line.toks) = 15
    /\ line.toks[1] \in DOMAIN FloatTenths

\* the acceptance rule of the claim: period, copy_number, percent_matches
\* and score are fields 2, 3, 5 and 7
TrfKeptLine(line) ==
    /\ TrfCandidate(line)
    /\ \/ /\ TenthsAt(line, 7) < 500
          /\ TenthsAt(line, 5) >= 800
          /\ TenthsAt(line, 3) > 20
          /\ TenthsAt(line, 2) < 100
       \/ /\ TenthsAt(line, 3) >= 20
          /\ TenthsAt(line, 5) >= 700
          /\ TenthsAt(line, 7) >= 500

\* C11: the tandem-repeat parser has written one record, in order, for
\* exactly those candidate lines read so far that satisfy the acceptance
\* rule, each with strand '+' and the start, end, score and consensus of
\* its line; every other candidate is discarded.
Thm_C11_TrfAcceptance ==
    (parser.fam = "trf" /\ parser.status \in {"loop", "closed"}) =>
        LET read == SubSeq(parser.pass.lines, 1, parser.pass.pos - 1)
            kept == SelectSeq(read, TrfKeptLine)
            out == parser.pass.out
        IN /\ Len(out) = Len(kept)
           /\ \A k \in 1..Len(out) :
                 /\ out[k].strand = "+"
                 /\ out[k].start = kept[k].toks[1]
                 /\ out[k].end = kept[k].toks[2]
                 /\ out[k].score = TenthsAt(kept[k], 7)
                 /\ out[k].repeat_consensus = kept[k].toks[14]
           /\ parser.status = "closed" =>
                 /\ read = parser.infile.data
                 /\ parser.outfile.data = out

\* a closed tandem-repeat pass over the two lines of the example: score 45,
\* percent_matches 85, copy_number 3, with period 8 (kept) and period 12
\* (discarded)
Wit_C11_KeptAndDiscarded ==
    /\ parser.fam = "trf"
    /\ parser.status = "closed"
    /\ parser.infile.data = <<Line(FALSE, TrfToks("8", "3.0", "85", "45")),
                              Line(FALSE, TrfToks("12", "3.0", "85", "45"))>>
    /\ Len(parser.outfile.data) = 1
    /\ parser.outfile.data[1].strand = "+"

\* the whole line is '<a> - <b>'
DustIntervalLine(line) ==
    /\ Len(line.toks) = 3
    /\ line.toks[1] \in DigitToks
    /\ line.toks[2] = " - "
    /\ line.toks[3] \in DigitToks

\* C12: the low-complexity parser has written one record, in order, for
\* exactly those lines read so far that are of the shape '<a> - <b>', with
\* start = a + 1, end = b + 1, strand '+' and no attribute but repeat_id,
\* and nothing for any other line.
CE_C12_OnlyIntervalLines ==
    (parser.fam = "dust" /\ parser.status \in {"loop", "closed"}) =>
        LET read == SubSeq(parser.pass.lines, 1, parser.pass.pos - 1)
            kept == SelectSeq(read, DustIntervalLine)
            out == parser.pass.out
        IN /\ Len(out) = Len(kept)
           /\ \A k \in 1..Len(out) :
                 /\ out[k].start = IntOf[kept[k].toks[1]] + 1
                 /\ out[k].end = IntOf[kept[k].toks[3]] + 1
                 /\ out[k].strand = "+"
                 /\ DOMAIN out[k] = {"region", "source", "feature", "start",
                                     "end", "strand", "repeat_id"}

\* C13: under fair scheduling every non-skipped orchestrator call that has
\* created its pool eventually passes the join barrier, merges and returns.
CE_C13_CallReturns ==
    (pc \in {"dispatch", "join", "merge"}) ~> (pc = "returned")

\* the slices whose work function is running
Running == { i \in Slices : hist.state[i] = "running" }

\* C14: at most num_threads work functions (and tool processes) run at any
\* moment; a slice is left in the queue only while every worker is busy or
\* about to take it.
Thm_C14_AtMostNRunning ==
    /\ Cardinality(Running) <= num_threads
    /\ Cardinality({ w \in DOMAIN workers : workers[w].wpc = "tool" })
          <= num_threads
    /\ \A i \in Running : \E w \in DOMAIN workers : workers[w].task = i

\* every worker is busy and a further slice waits in the queue
Wit_C14_SliceWaits ==
    /\ Cardinality(Running) = num_threads
    /\ \A w \in DOMAIN workers : workers[w].wpc # "idle"
    /\ queue # <<>>

\* C15: the workers of two distinct slices of a slice list create, write
\* and delete disjoint sets of files, whatever the region names.
Thm_C15_DisjointFiles ==
    namer.status = "done" =>
        /\ namer.files_a \cap namer.files_b = {}
        /\ slice_file_name(namer.a) # slice_file_name(namer.b)

\* a region whose name starts with the file name of the other slice
Wit_C15_NameInsideName ==
    /\ namer.status = "done"
    /\ namer.a = <<"c", 1, 1>>
    /\ namer.b[1] = "c.rs1.re1.fa"
    /\ namer.files_a # {}

\* C16: in the canonical file of a slice, of every family, the repeat_id of
\* the k-th record written is k: the counter starts at 1 for each file and a
\* line that writes no record leaves it alone.
Thm_C16_RepeatIdsDense ==
    parser.status \in {"loop", "closed"} =>
        /\ \A k \in 1..Len(parser.pass.out) : parser.pass.out[k].repeat_id = k
        /\ parser.pass.repeat_count = Len(parser.pass.out) + 1
        /\ parser.status = "closed" =>
              \A k \in 1..Len(parser.outfile.data) :
                  parser.outfile.data[k].repeat_id = k

\* a closed pass whose first line wrote no record and whose second line
\* wrote the record numbered 1
Wit_C16_IdAfterSkippedLine ==
    /\ parser.status = "closed"
    /\ Len(parser.infile.data) = 2
    /\ Len(parser.outfile.data) = 1
    /\ parser.pass.out = parser.outfile.data
    /\ \/ parser.fam = "trf" /\ TrfCandidate(parser.infile.data[1])
                             /\ ~TrfKeptLine(parser.infile.data[1])
       \/ parser.fam = "dust" /\ ~DustMatch(parser.infile.data[1])
       \/ parser.fam = "masker" /\ ~RmMatch(parser.infile.data[1])

\* a closed pass that wrote two records
Wit_C16_TwoRecords ==
    /\ parser.status = "closed"
    /\ Len(parser.outfile.data) = 2

\* how often x occurs in the sequence s
CountIn(x, s) == Cardinality({ i \in DOMAIN s : s[i] = x })

\* how often x occurs in the files paths of dir
RECURSIVE CountInFiles(_, _, _)
CountInFiles(x, dir, paths) ==
    IF paths = {}
    THEN 0
    ELSE LET q == CHOOSE q \in paths : TRUE
         IN CountIn(x, dir[q]) + CountInFiles(x, dir, paths \ {q})

\* the per-slice canonical files of the output directory
CanonicalFiles == { q \in DOMAIN fs : q[2] = ResultsExt(family) }

\* C17: once the merge step of a call has run, the final file holds every
\* record of the per-slice canonical files of the output directory exactly
\* as often as those files hold it, repeat_id included, and nothing else.
Thm_C17_MergeIsConcatenation ==
    (pc = "returned" /\ hist.merge_calls = 1) =>
        /\ final.exists
        /\ \A x \in { final.data[i] : i \in DOMAIN final.data }
                    \cup UNION { { fs[q][i] : i \in DOMAIN fs[q] } :
                                 q \in CanonicalFiles } :
              CountIn(x, final.data) = CountInFiles(x, fs, CanonicalFiles)
        /\ \A q \in CanonicalFiles :
              \E from \in 0..Len(final.data) :
                  SubSeq(final.data, from + 1, from + Len(fs[q])) = fs[q]

\* a final file merged from two slices whose records both carry repeat_id 1
Wit_C17_SameIdTwice ==
    /\ pc = "returned"
    /\ hist.merge_calls = 1
    /\ Cardinality(CanonicalFiles) = 2
    /\ Len(final.data) = 2
    /\ final.data[1].repeat_id = 1
    /\ final.data[2].repeat_id = 1

\* C18: a returned first call has left the working directory of the calling
\* process as it was at entry, and every tandem-repeat worker that has
\* spawned its tool did so from the tandem-repeat output directory.
CE_C18_CwdConfinedToWorkers ==
    /\ (pc = "returned" /\ run = 1) => cwd = "caller_dir"
    /\ \A w \in DOMAIN workers :
          (family = "trf" /\ workers[w].wpc \in {"parse", "cleanup", "spin"})
              => workers[w].cwd = OutputDir("trf")

\* C19: when a call has returned through the skip path, the final file it
\* accepted holds every record of every per-slice canonical file of the
\* output directory, also when the call before it was killed.
CE_C19_AcceptedFinalComplete ==
    (pc = "returned" /\ hist.skipped) =>
        \A q \in CanonicalFiles : \A i \in DOMAIN fs[q] :
            CountIn(fs[q][i], final.data)
                = CountInFiles(fs[q][i], fs, CanonicalFiles)

\* C20: the RepeatMasker command is the tool path followed by '-nolow -lib
\* <library> -engine crossmatch -dir <output dir>', with 'homo' for an empty
\* library; it never holds '-species' and does not depend on the species
\* argument.
Thm_C20_MaskerCommand ==
    builder.status = "done" =>
        /\ builder.cmd =
              << IF builder.repeatmasker_path \in {None, ""}
                 THEN "RepeatMasker" ELSE builder.repeatmasker_path,
                 "-nolow", "-lib",
                 IF builder.library \in {None, ""}
                 THEN "homo" ELSE builder.library,
                 "-engine", "crossmatch", "-dir",
                 builder.repeatmasker_output_dir >>
        /\ \A k \in DOMAIN builder.cmd : builder.cmd[k] # "-species"

\* a command built for a call with a species and no library
Wit_C20_SpeciesWithoutLibrary ==
    /\ builder.status = "done"
    /\ builder.library = None
    /\ builder.species = "mouse"
    /\ builder.cmd[3] = "-lib"

====
